---- MODULE Spec2Model ----
(***************************************************************************)
(* Model of the catalog parsing and stock-classification core of           *)
(* healthfully_bot.py: main() = parse_catalog followed by build_message.    *)
(*                                                                         *)
(* Strings are sequences of one-character strings, so that strip, lower,   *)
(* startswith, the BUY NOW pattern, URL joining and textwrap.shorten are    *)
(* computed character by character.  Two characters are written the way     *)
(* the markup writes them: "&nbsp;" is U+00A0 and "&hellip;" is U+2026.     *)
(*                                                                         *)
(* A document is the sequence, in document order, of its top-level         *)
(* elements; an element has a tag, a class list, optional attributes (an   *)
(* absent attribute is << >>, a present one is <<value>>), one text node    *)
(* and, for a top-level element, the sequence of the elements nested in it *)
(* (kids, in document order).                                              *)
(***************************************************************************)
EXTENDS Integers, Sequences, FiniteSets, TLC

VARIABLES doc, base_url, pc, cards, i, in_list, oos_list, seen, message

vars == <<doc, base_url, pc, cards, i, in_list, oos_list, seen, message>>

----------------------------------------------------------------------------
(* Characters and Python's str methods                                      *)

NBSP == "&nbsp;"
ELLIPSIS == "&hellip;"

Lowers == <<"a","b","c","d","e","f","g","h","i","j","k","l","m",
            "n","o","p","q","r","s","t","u","v","w","x","y","z">>
Uppers == <<"A","B","C","D","E","F","G","H","I","J","K","L","M",
            "N","O","P","Q","R","S","T","U","V","W","X","Y","Z">>
Digits == {"0","1","2","3","4","5","6","7","8","9"}

Range(s) == {s[k] : k \in 1..Len(s)}

Letters == Range(Lowers) \cup Range(Uppers)

IsAlpha(c) == c \in Letters

\* \w of the re module
IsWord(c) == IsAlpha(c) \/ c \in Digits \/ c = "_"

\* str.isspace / \s : U+00A0 is white space for both
IsSpace(c) == c \in {" ", "\t", "\n", "\r", "\f", NBSP}

\* the lower-case letter of each upper-case letter
LowerOf == [c \in Range(Uppers) |-> Lowers[CHOOSE k \in 1..Len(Uppers) : Uppers[k] = c]]

LowerChar(c) == IF c \in DOMAIN LowerOf THEN LowerOf[c] ELSE c

\* str.lower()
Lower(s) == [k \in 1..Len(s) |-> LowerChar(s[k])]

\* the positions of the characters of s that are no white space
NonSpaces(s) == {k \in 1..Len(s) : ~IsSpace(s[k])}

Min(S) == CHOOSE x \in S : \A y \in S : x <= y
Max(S) == CHOOSE x \in S : \A y \in S : x >= y

\* str.lstrip()
LStrip(s) ==
    IF NonSpaces(s) = {} THEN <<>> ELSE SubSeq(s, Min(NonSpaces(s)), Len(s))

\* str.rstrip()
RStrip(s) ==
    IF NonSpaces(s) = {} THEN <<>> ELSE SubSeq(s, 1, Max(NonSpaces(s)))

\* str.strip()
Strip(s) == LStrip(RStrip(s))

\* str.startswith(p)
StartsWith(s, p) == Len(s) >= Len(p) /\ SubSeq(s, 1, Len(p)) = p

\* p in s
Contains(s, p) ==
    \E k \in 0..(Len(s) - Len(p)) : SubSeq(s, k + 1, k + Len(p)) = p

\* s.find(c): the first position of character c in s, 0 when there is none
Find(s, c) ==
    IF \E k \in 1..Len(s) : s[k] = c
    THEN CHOOSE k \in 1..Len(s) : s[k] = c /\ \A j \in 1..(k - 1) : s[j] # c
    ELSE 0

\* the first position of any character of set cs in s, Len(s) + 1 when none
FindAny(s, cs) ==
    IF \E k \in 1..Len(s) : s[k] \in cs
    THEN CHOOSE k \in 1..Len(s) : s[k] \in cs /\ \A j \in 1..(k - 1) : s[j] \notin cs
    ELSE Len(s) + 1

\* s.split(c): the pieces between occurrences of character c
RECURSIVE SplitOn(_, _)
SplitOn(s, c) ==
    LET k == Find(s, c)
    IN  IF k = 0 THEN <<s>>
        ELSE <<SubSeq(s, 1, k - 1)>> \o SplitOn(SubSeq(s, k + 1, Len(s)), c)

\* c.join(parts)
RECURSIVE Join(_, _)
Join(parts, sep) ==
    IF parts = <<>> THEN <<>>
    ELSE IF Len(parts) = 1 THEN parts[1]
    ELSE parts[1] \o sep \o Join(Tail(parts), sep)

\* str.split(): the maximal runs of non-space characters
RECURSIVE Words(_)
Words(s) ==
    LET t == LStrip(s)
        k == FindAny(t, {" ", "\t", "\n", "\r", "\f", NBSP})
    IN  IF t = <<>> THEN <<>>
        ELSE <<SubSeq(t, 1, k - 1)>> \o Words(SubSeq(t, k, Len(t)))

\* re.sub(r"\s+", " ", s): a run of white space leaves one space, at the
\* place of its first character
SubSpaces(s) ==
    LET keep == SelectSeq([k \in 1..Len(s) |-> k],
                          LAMBDA k : ~IsSpace(s[k]) \/ k = 1 \/ ~IsSpace(s[k - 1]))
    IN  [j \in 1..Len(keep) |-> IF IsSpace(s[keep[j]]) THEN " " ELSE s[keep[j]]]

collapse_text(s) ==
    Strip(SubSpaces([k \in 1..Len(s) |-> IF s[k] = NBSP THEN " " ELSE s[k]]))

----------------------------------------------------------------------------
(* urllib.parse, as normalize_url uses it                                  *)

\* the value that stands for a raised ValueError
ValueError == <<"ValueError">>

S_http == <<"h","t","t","p">>
S_https == <<"h","t","t","p","s">>
S_ftp == <<"f","t","p">>

\* urllib.parse.uses_relative
uses_relative ==
    {<<>>, <<"f","t","p">>, <<"h","t","t","p">>, <<"g","o","p","h","e","r">>,
     <<"n","n","t","p">>, <<"i","m","a","p">>, <<"w","a","i","s">>,
     <<"f","i","l","e">>, <<"h","t","t","p","s">>, <<"s","h","t","t","p">>,
     <<"m","m","s">>, <<"p","r","o","s","p","e","r","o">>,
     <<"r","t","s","p">>, <<"r","t","s","p","s">>, <<"r","t","s","p","u">>,
     <<"s","f","t","p">>, <<"s","v","n">>, <<"s","v","n","+","s","s","h">>,
     <<"w","s">>, <<"w","s","s">>}

\* urllib.parse.uses_netloc
uses_netloc ==
    {<<>>, <<"f","t","p">>, <<"h","t","t","p">>, <<"g","o","p","h","e","r">>,
     <<"n","n","t","p">>, <<"t","e","l","n","e","t">>, <<"i","m","a","p">>,
     <<"w","a","i","s">>, <<"f","i","l","e">>, <<"m","m","s">>,
     <<"h","t","t","p","s">>, <<"s","h","t","t","p">>,
     <<"s","n","e","w","s">>, <<"p","r","o","s","p","e","r","o">>,
     <<"r","t","s","p">>, <<"r","t","s","p","s">>, <<"r","t","s","p","u">>,
     <<"r","s","y","n","c">>, <<"s","v","n">>,
     <<"s","v","n","+","s","s","h">>, <<"s","f","t","p">>, <<"n","f","s">>,
     <<"g","i","t">>, <<"g","i","t","+","s","s","h">>, <<"w","s">>,
     <<"w","s","s">>}

\* urllib.parse.uses_params
uses_params ==
    {<<>>, <<"f","t","p">>, <<"h","d","l">>,
     <<"p","r","o","s","p","e","r","o">>, <<"h","t","t","p">>,
     <<"i","m","a","p">>, <<"h","t","t","p","s">>, <<"s","h","t","t","p">>,
     <<"r","t","s","p">>, <<"r","t","s","p","s">>, <<"r","t","s","p","u">>,
     <<"s","i","p">>, <<"s","i","p","s">>, <<"m","m","s">>,
     <<"s","f","t","p">>, <<"t","e","l">>}

\* urllib.parse.scheme_chars
IsSchemeChar(c) == IsAlpha(c) \/ c \in Digits \/ c \in {"+", "-", "."}

\* _WHATWG_C0_CONTROL_OR_SPACE: those of U+0000 to U+0020 that strings of
\* the model hold
C0_CONTROL_OR_SPACE == {" ", "\t", "\n", "\r", "\f"}

\* _UNSAFE_URL_BYTES_TO_REMOVE
UNSAFE_URL_BYTES_TO_REMOVE == {"\t", "\r", "\n"}

\* s.lstrip(cs)
LStripChars(s, cs) ==
    IF \A k \in 1..Len(s) : s[k] \in cs THEN <<>>
    ELSE SubSeq(s, Min({k \in 1..Len(s) : s[k] \notin cs}), Len(s))

\* s.strip(cs)
StripChars(s, cs) ==
    IF \A k \in 1..Len(s) : s[k] \in cs THEN <<>>
    ELSE SubSeq(s, Min({k \in 1..Len(s) : s[k] \notin cs}),
                Max({k \in 1..Len(s) : s[k] \notin cs}))

\* s.replace(c, "") for every c of cs
RemoveChars(s, cs) == SelectSeq(s, LAMBDA c : c \notin cs)

\* character k of s, "" when s has no such position
At(s, k) == IF k \in 1..Len(s) THEN s[k] ELSE ""

HexDigits == Digits \cup {"a","b","c","d","e","f","A","B","C","D","E","F"}

HexChars == <<"0","1","2","3","4","5","6","7","8","9","a","b","c","d","e","f">>

\* "%x" % n
RECURSIVE Hex(_)
Hex(n) ==
    IF n < 16 THEN <<HexChars[n + 1]>>
    ELSE Hex(n \div 16) \o <<HexChars[(n % 16) + 1]>>

DigitValue(c) == CHOOSE n \in 0..9 : HexChars[n + 1] = c

\* int(s, 10) of a string of decimal digits
RECURSIVE IntOf(_)
IntOf(s) ==
    IF s = <<>> THEN 0
    ELSE 10 * IntOf(SubSeq(s, 1, Len(s) - 1)) + DigitValue(s[Len(s)])

\* ipaddress._BaseV4._parse_octet does not raise
octet_ok(o) ==
    /\ o # <<>>
    /\ \A k \in 1..Len(o) : o[k] \in Digits
    /\ Len(o) <= 3
    /\ (o = <<"0">> \/ o[1] # "0")
    /\ IntOf(o) <= 255

\* ipaddress.IPv4Address(s) does not raise
IsIPv4(s) ==
    /\ s # <<>>
    /\ Find(s, "/") = 0
    /\ Len(SplitOn(s, ".")) = 4
    /\ \A k \in 1..4 : octet_ok(SplitOn(s, ".")[k])

\* the two hextets that _ip_int_from_string puts in the place of an IPv4
\* suffix with octets o
ipv4_hextets(o) ==
    <<Hex(IntOf(o[1]) * 256 + IntOf(o[2])), Hex(IntOf(o[3]) * 256 + IntOf(o[4]))>>

\* ipaddress._BaseV6._parse_hextet does not raise
hextet_ok(h) ==
    /\ h # <<>>
    /\ \A k \in 1..Len(h) : h[k] \in HexDigits
    /\ Len(h) <= 4

\* _ip_int_from_string, from "_max_parts" on: at most 9 parts, at most one
\* "::", a leading or trailing ":" only as part of it, and hextets that parse
ipv6_parts_ok(parts, skips) ==
    /\ Len(parts) <= 9
    /\ Cardinality(skips) <= 1
    /\ IF skips # {}
       THEN /\ parts[1] = <<>> => Min(skips) = 2
            /\ parts[Len(parts)] = <<>> => Min(skips) = Len(parts) - 1
            /\ 8 - Cardinality({k \in 1..Len(parts) : parts[k] # <<>>}) >= 1
            /\ \A k \in 1..Len(parts) : parts[k] # <<>> => hextet_ok(parts[k])
       ELSE /\ Len(parts) = 8
            /\ \A k \in 1..Len(parts) : hextet_ok(parts[k])

\* _ip_int_from_string, the IPv4-style suffix: the last part with a "." is
\* an IPv4 address and gives two hextets
ipv6_suffix_ok(parts) ==
    IF Find(parts[Len(parts)], ".") > 0
    THEN /\ IsIPv4(parts[Len(parts)])
         /\ ipv6_parts_ok(
                SubSeq(parts, 1, Len(parts) - 1)
                    \o ipv4_hextets(SplitOn(parts[Len(parts)], ".")),
                {k \in 2..Len(parts) : parts[k] = <<>>})
    ELSE ipv6_parts_ok(parts, {k \in 2..(Len(parts) - 1) : parts[k] = <<>>})

\* ipaddress.IPv6Address(s) does not raise: the scope id after a "%" is not
\* empty and holds no "%", the address has at least three parts
IsIPv6(s) ==
    /\ Find(s, "/") = 0
    /\ Find(s, "%") > 0 =>
          /\ Find(s, "%") < Len(s)
          /\ Find(SubSeq(s, Find(s, "%") + 1, Len(s)), "%") = 0
    /\ SplitOn(s, "%")[1] # <<>>
    /\ Len(SplitOn(SplitOn(s, "%")[1], ":")) >= 3
    /\ ipv6_suffix_ok(SplitOn(SplitOn(s, "%")[1], ":"))

\* re.match(r"\Av[a-fA-F0-9]+\..+\Z", hostname)
IsIPvFuture(h) ==
    /\ At(h, 1) = "v"
    /\ \E k \in 3..(Len(h) - 1) :
          /\ h[k] = "."
          /\ \A j \in 2..(k - 1) : h[j] \in HexDigits
    /\ "\n" \notin Range(SubSeq(h, FindAny(h, {"."}) + 1, Len(h)))

\* _check_bracketed_host(hostname) does not raise
check_bracketed_host(hostname) ==
    IF At(hostname, 1) = "v" THEN IsIPvFuture(hostname)
    ELSE IsIPv6(hostname)

\* netloc.partition("[")[2].partition("]")[0]
bracketed_host(netloc) ==
    SplitOn(SubSeq(netloc, Find(netloc, "[") + 1, Len(netloc)), "]")[1]

\* unicodedata.normalize("NFKC", n) on the characters of the model: U+00A0
\* becomes a space, U+2026 three full stops
RECURSIVE NFKC(_)
NFKC(n) ==
    IF n = <<>> THEN <<>>
    ELSE (IF Head(n) = NBSP THEN <<" ">>
          ELSE IF Head(n) = ELLIPSIS THEN <<".",".",".">>
          ELSE <<Head(n)>>) \o NFKC(Tail(n))

\* _checknetloc(netloc) raises
checknetloc_raises(netloc) ==
    /\ netloc # <<>>
    /\ \E k \in 1..Len(netloc) : netloc[k] \in {NBSP, ELLIPSIS}
    /\ RemoveChars(netloc, {"@", ":", "#", "?"})
          # NFKC(RemoveChars(netloc, {"@", ":", "#", "?"}))
    /\ \E c \in Range(NFKC(RemoveChars(netloc, {"@", ":", "#", "?"}))) :
          c \in {"/", "?", "#", "@", ":"}

\* urlsplit raises ValueError for this netloc: a bracket without its
\* partner, a bracketed host that is no IPv6 or IPvFuture address, or
\* _checknetloc
netloc_raises(netloc) ==
    \/ ("[" \in Range(netloc) /\ "]" \notin Range(netloc))
    \/ ("]" \in Range(netloc) /\ "[" \notin Range(netloc))
    \/ ("[" \in Range(netloc) /\ "]" \in Range(netloc)
        /\ ~check_bracketed_host(bracketed_host(netloc)))
    \/ checknetloc_raises(netloc)

\* urlsplit, last step: the query is cut off at the first "?"
urlsplit_query(scheme, netloc, url, fragment) ==
    [raises |-> netloc_raises(netloc),
     scheme |-> scheme, netloc |-> netloc,
     path |-> IF Find(url, "?") > 0 THEN SubSeq(url, 1, Find(url, "?") - 1) ELSE url,
     query |-> IF Find(url, "?") > 0
               THEN SubSeq(url, Find(url, "?") + 1, Len(url)) ELSE <<>>,
     fragment |-> fragment]

\* urlsplit, third step: the fragment is cut off at the first "#"
urlsplit_fragment(scheme, netloc, url) ==
    IF Find(url, "#") > 0
    THEN urlsplit_query(scheme, netloc, SubSeq(url, 1, Find(url, "#") - 1),
                        SubSeq(url, Find(url, "#") + 1, Len(url)))
    ELSE urlsplit_query(scheme, netloc, url, <<>>)

\* _splitnetloc(url, 2): the netloc ends before the first of "/", "?", "#"
splitnetloc(scheme, rest) ==
    urlsplit_fragment(scheme,
                      SubSeq(rest, 1, FindAny(rest, {"/", "?", "#"}) - 1),
                      SubSeq(rest, FindAny(rest, {"/", "?", "#"}), Len(rest)))

\* urlsplit, second step: "//" starts a netloc
urlsplit_netloc(scheme, url) ==
    IF StartsWith(url, <<"/","/">>)
    THEN splitnetloc(scheme, SubSeq(url, 3, Len(url)))
    ELSE urlsplit_fragment(scheme, <<>>, url)

\* the test of urlsplit for a scheme: a ":" after a letter and scheme
\* characters only
HasScheme(url) ==
    /\ Find(url, ":") > 1
    /\ IsAlpha(url[1])
    /\ \A k \in 1..(Find(url, ":") - 1) : IsSchemeChar(url[k])

\* urlsplit, first step, on the cleaned url and scheme: a scheme found in
\* url is lower-cased
urlsplit_scheme(url, scheme) ==
    IF HasScheme(url)
    THEN urlsplit_netloc(Lower(SubSeq(url, 1, Find(url, ":") - 1)),
                         SubSeq(url, Find(url, ":") + 1, Len(url)))
    ELSE urlsplit_netloc(scheme, url)

\* urlsplit(url, scheme): [raises, scheme, netloc, path, query, fragment],
\* raises telling that the call raises ValueError; leading control
\* characters and spaces are stripped and tabs and line ends removed first
urlsplit(url, scheme) ==
    urlsplit_scheme(
        RemoveChars(LStripChars(url, C0_CONTROL_OR_SPACE), UNSAFE_URL_BYTES_TO_REMOVE),
        RemoveChars(StripChars(scheme, C0_CONTROL_OR_SPACE), UNSAFE_URL_BYTES_TO_REMOVE))

\* the position where _splitparams cuts url: the first ";" of its last
\* segment, 0 when that has none
splitparams_at(url) ==
    IF \E k \in 1..Len(url) : url[k] = "/"
    THEN IF \E k \in Max({j \in 1..Len(url) : url[j] = "/"})..Len(url) : url[k] = ";"
         THEN Min({k \in Max({j \in 1..Len(url) : url[j] = "/"})..Len(url) : url[k] = ";"})
         ELSE 0
    ELSE Find(url, ";")

\* urlparse, on the result r of urlsplit: the params are split off the path
splitparams(r, cut) ==
    [raises |-> r.raises, scheme |-> r.scheme, netloc |-> r.netloc,
     path |-> IF cut > 0 THEN SubSeq(r.path, 1, cut - 1) ELSE r.path,
     params |-> IF cut > 0 THEN SubSeq(r.path, cut + 1, Len(r.path)) ELSE <<>>,
     query |-> r.query, fragment |-> r.fragment]

urlparse_split(r) ==
    IF r.scheme \in uses_params /\ ";" \in Range(r.path)
    THEN splitparams(r, splitparams_at(r.path))
    ELSE splitparams(r, 0)

\* urlparse(url, scheme)
urlparse(url, scheme) == urlparse_split(urlsplit(url, scheme))

\* urlunsplit((scheme, netloc, url, query, fragment))
urlunsplit(scheme, netloc, url, query, fragment) ==
    LET u1 == IF \/ netloc # <<>>
                 \/ (scheme # <<>> /\ scheme \in uses_netloc
                     /\ ~StartsWith(url, <<"/","/">>))
              THEN <<"/","/">> \o netloc
                   \o (IF url # <<>> /\ Head(url) # "/" THEN <<"/">> ELSE <<>>)
                   \o url
              ELSE url
        u2 == IF scheme # <<>> THEN scheme \o <<":">> \o u1 ELSE u1
        u3 == IF query # <<>> THEN u2 \o <<"?">> \o query ELSE u2
    IN  IF fragment # <<>> THEN u3 \o <<"#">> \o fragment ELSE u3

\* urlunparse((scheme, netloc, url, params, query, fragment))
urlunparse(scheme, netloc, url, params, query, fragment) ==
    urlunsplit(scheme, netloc,
               IF params # <<>> THEN url \o <<";">> \o params ELSE url,
               query, fragment)

\* the loop of urljoin over the segments: ".." pops, "." is skipped
RECURSIVE ResolveSegments(_, _)
ResolveSegments(segments, resolved) ==
    IF segments = <<>> THEN resolved
    ELSE IF Head(segments) = <<".",".">>
    THEN ResolveSegments(Tail(segments),
            IF resolved = <<>> THEN resolved
            ELSE SubSeq(resolved, 1, Len(resolved) - 1))
    ELSE IF Head(segments) = <<".">>
    THEN ResolveSegments(Tail(segments), resolved)
    ELSE ResolveSegments(Tail(segments), Append(resolved, Head(segments)))

\* segments[1:-1] = filter(None, segments[1:-1])
FilterMiddle(segments) ==
    IF Len(segments) <= 2 THEN segments
    ELSE <<segments[1]>>
         \o SelectSeq(SubSeq(segments, 2, Len(segments) - 1), LAMBDA x : x # <<>>)
         \o <<segments[Len(segments)]>>

\* base_parts: bpath.split("/") without a last item that is no directory
base_parts(bp) == IF bp[Len(bp)] # <<>> THEN SubSeq(bp, 1, Len(bp) - 1) ELSE bp

\* the segments urljoin resolves
join_segments(bpath, path) ==
    IF path # <<>> /\ Head(path) = "/"
    THEN SplitOn(path, "/")
    ELSE FilterMiddle(base_parts(SplitOn(bpath, "/")) \o SplitOn(path, "/"))

\* "/".join(resolved_path) or "/", with the trailing "" after a last "." or ".."
resolved_path(segments) ==
    LET joined == Join(IF segments[Len(segments)] \in {<<".">>, <<".",".">>}
                       THEN Append(ResolveSegments(segments, <<>>), <<>>)
                       ELSE ResolveSegments(segments, <<>>), <<"/">>)
    IN  IF joined = <<>> THEN <<"/">> ELSE joined

\* urljoin from "if not path and not params" on, netloc being the one of
\* the result
urljoin_path(b, u, netloc) ==
    IF u.path = <<>> /\ u.params = <<>>
    THEN urlunparse(u.scheme, netloc, b.path, b.params,
                    IF u.query = <<>> THEN b.query ELSE u.query, u.fragment)
    ELSE urlunparse(u.scheme, netloc, resolved_path(join_segments(b.path, u.path)),
                    u.params, u.query, u.fragment)

\* urljoin once base and url are parsed into b and u
urljoin_split(url, b, u) ==
    IF b.raises \/ u.raises THEN ValueError
    ELSE IF u.scheme # b.scheme \/ u.scheme \notin uses_relative THEN url
    ELSE IF u.scheme \in uses_netloc /\ u.netloc # <<>>
    THEN urlunparse(u.scheme, u.netloc, u.path, u.params, u.query, u.fragment)
    ELSE urljoin_path(b, u, IF u.scheme \in uses_netloc THEN b.netloc ELSE u.netloc)

urljoin_base(url, b) == urljoin_split(url, b, urlparse(url, b.scheme))

\* urllib.parse.urljoin(base, url): the joined URL, or ValueError
urljoin(base, url) ==
    IF base = <<>> THEN url
    ELSE IF url = <<>> THEN base
    ELSE urljoin_base(url, urlparse(base, <<>>))

\* urlunparse((p.scheme, p.netloc, href, "", "", "")), p being urlparse(base)
root_relative(p, href) ==
    IF p.raises THEN ValueError
    ELSE urlunparse(p.scheme, p.netloc, href, <<>>, <<>>, <<>>)

\* normalize_url without its branch for a leading "/"
normalize_url_join_only(base, href) ==
    IF \/ StartsWith(href, <<"h","t","t","p",":","/","/">>)
       \/ StartsWith(href, <<"h","t","t","p","s",":","/","/">>)
    THEN href
    ELSE urljoin(base, href)

\* normalize_url(base, href): the URL, or ValueError when urlparse or
\* urljoin raises it
normalize_url(base, href) ==
    IF \/ StartsWith(href, <<"h","t","t","p",":","/","/">>)
       \/ StartsWith(href, <<"h","t","t","p","s",":","/","/">>)
    THEN href
    ELSE IF StartsWith(href, <<"/">>)
    THEN root_relative(urlparse(base, <<>>), href)
    ELSE urljoin(base, href)

----------------------------------------------------------------------------
(* textwrap.shorten, as build_message calls it: a TextWrapper with          *)
(* max_lines = 1 and no indent; break_long_words, break_on_hyphens,         *)
(* expand_tabs, replace_whitespace and drop_whitespace are on                *)

NameWidth == 60

Placeholder == <<ELLIPSIS>>

\* textwrap._whitespace, without U+000B, which no string of the model holds
WrapSpace == {" ", "\t", "\n", "\r", "\f"}

Spaces(n) == [j \in 1..n |-> " "]

\* the column after the characters of pre, which begin at column col and
\* hold no tab: "\n" and "\r" begin a line
ColumnAfter(pre, col) ==
    IF \E k \in 1..Len(pre) : pre[k] \in {"\n", "\r"}
    THEN Len(pre) - Max({k \in 1..Len(pre) : pre[k] \in {"\n", "\r"}})
    ELSE col + Len(pre)

\* s.expandtabs(8), s beginning at column col
RECURSIVE expandtabs(_, _)
expandtabs(s, col) ==
    IF Find(s, "\t") = 0 THEN s
    ELSE SubSeq(s, 1, Find(s, "\t") - 1)
         \o Spaces(8 - (ColumnAfter(SubSeq(s, 1, Find(s, "\t") - 1), col) % 8))
         \o expandtabs(SubSeq(s, Find(s, "\t") + 1, Len(s)),
                       ColumnAfter(SubSeq(s, 1, Find(s, "\t") - 1), col) + 8
                         - (ColumnAfter(SubSeq(s, 1, Find(s, "\t") - 1), col) % 8))

\* text.translate(unicode_whitespace_trans)
translate_whitespace(text) ==
    [k \in 1..Len(text) |-> IF text[k] \in WrapSpace THEN " " ELSE text[k]]

\* TextWrapper._munge_whitespace
munge_whitespace(text) == translate_whitespace(expandtabs(text, 0))

\* [^\d\W] of wordsep_re: a word character that is no digit
IsLetter(c) == IsAlpha(c) \/ c = "_"

\* [\w!"'&.,?] of wordsep_re
IsBeforeDash(c) == IsWord(c) \/ c \in {"!", "\"", "'", "&", ".", ",", "?"}

\* the last position of the run of hyphens that holds position p
HyphenRunEnd(text, p) ==
    Max({e \in p..Len(text) : \A j \in p..e : text[j] = "-"})

\* -{2,}(?=\w) matches at p: two or more hyphens, then a word character
DashesAt(text, p) ==
    /\ At(text, p) = "-"
    /\ At(text, p + 1) = "-"
    /\ IsWord(At(text, HyphenRunEnd(text, p) + 1))

\* the "hyphenated word" branch of wordsep_re: the hyphen at q ends a chunk
\* when it follows two letters, or letter, hyphen, letter, and a letter and
\* then a letter, or a hyphen and a letter, follow it
HyphenBreak(text, q) ==
    /\ At(text, q) = "-"
    /\ \/ (IsLetter(At(text, q - 2)) /\ IsLetter(At(text, q - 1)))
       \/ (IsLetter(At(text, q - 3)) /\ At(text, q - 2) = "-"
           /\ IsLetter(At(text, q - 1)))
    /\ IsLetter(At(text, q + 1))
    /\ \/ IsLetter(At(text, q + 2))
       \/ (At(text, q + 2) = "-" /\ IsLetter(At(text, q + 3)))

\* a match of the "em-dash between words" branch of wordsep_re begins at p
DashesBetweenWords(text, p) ==
    IsBeforeDash(At(text, p - 1)) /\ DashesAt(text, p)

\* a match of wordsep_re begins at p: at the first character, where white
\* space begins or ends, after a hyphen that breaks a word (the lazy
\* [^ws]+? stops at the first one), and where dashes between words begin or
\* end
ChunkStart(text, p) ==
    \/ p = 1
    \/ (text[p] \in WrapSpace) # (text[p - 1] \in WrapSpace)
    \/ HyphenBreak(text, p - 1)
    \/ DashesBetweenWords(text, p)
    \/ \E q \in 1..(p - 2) :
          DashesBetweenWords(text, q) /\ HyphenRunEnd(text, q) = p - 1

\* the positions where the matches of wordsep_re begin, in order
chunk_starts(text) ==
    SelectSeq([k \in 1..Len(text) |-> k], LAMBDA p : ChunkStart(text, p))

\* the matches that begin at the positions st
chunks_at(text, st) ==
    [j \in 1..Len(st) |->
        SubSeq(text, st[j], IF j = Len(st) THEN Len(text) ELSE st[j + 1] - 1)]

\* TextWrapper._split: [c for c in wordsep_re.split(text) if c]
split(text) == chunks_at(text, chunk_starts(text))

\* TextWrapper._split_chunks
split_chunks(text) == split(munge_whitespace(text))

\* sum(map(len, cur_line))
RECURSIVE SumLen(_)
SumLen(line) == IF line = <<>> THEN 0 ELSE Len(Head(line)) + SumLen(Tail(line))

\* the inner "while chunks" loop of _wrap_chunks: chunks are taken while
\* they fit; the result is the line and the chunks left
RECURSIVE TakeChunks(_, _, _)
TakeChunks(chunks, cur_line, width) ==
    IF chunks # <<>> /\ SumLen(cur_line) + Len(Head(chunks)) <= width
    THEN TakeChunks(Tail(chunks), Append(cur_line, Head(chunks)), width)
    ELSE [line |-> cur_line, rest |-> chunks]

\* chunk.rfind("-", 0, space_left) + 1: the last position up to space_left
\* of a hyphen in chunk, 0 when there is none
rfind_hyphen(chunk, space_left) ==
    IF \E k \in 1..Min({space_left, Len(chunk)}) : chunk[k] = "-"
    THEN Max({k \in 1..Min({space_left, Len(chunk)}) : chunk[k] = "-"})
    ELSE 0

\* the number of characters _handle_long_word cuts off chunk: space_left, or
\* up to the last hyphen that fits when something else than hyphens is
\* before it
break_at(chunk, space_left, hyphen) ==
    IF /\ Len(chunk) > space_left
       /\ hyphen > 1
       /\ \E k \in 1..(hyphen - 1) : chunk[k] # "-"
    THEN hyphen
    ELSE space_left

\* cur_line.append(chunk[:end]); reversed_chunks[-1] = chunk[end:]
break_chunk(t, chunk, end) ==
    [line |-> Append(t.line, SubSeq(chunk, 1, Min({end, Len(chunk)}))),
     rest |-> <<SubSeq(chunk, Min({end, Len(chunk)}) + 1, Len(chunk))>> \o Tail(t.rest)]

\* _handle_long_word with space_left characters left on the line
break_long_word(t, space_left) ==
    break_chunk(t, Head(t.rest),
                break_at(Head(t.rest), space_left,
                         rfind_hyphen(Head(t.rest), space_left)))

\* "if chunks and len(chunks[-1]) > width: self._handle_long_word(...)"
handle_long_word(t, width) ==
    IF t.rest # <<>> /\ Len(Head(t.rest)) > width
    THEN break_long_word(t, IF width < 1 THEN 1 ELSE width - SumLen(t.line))
    ELSE t

\* "If the last chunk on this line is all whitespace, drop it."
drop_last_space(t) ==
    IF t.line # <<>> /\ Strip(t.line[Len(t.line)]) = <<>>
    THEN [line |-> SubSeq(t.line, 1, Len(t.line) - 1), rest |-> t.rest]
    ELSE t

\* the placeholder appended to the line as it is, without making room
place_holder_no_room(cur_line, width, placeholder) ==
    IF cur_line = <<>> THEN LStrip(placeholder)
    ELSE Join(cur_line, <<>>) \o placeholder

\* the "while cur_line" loop that makes room for the placeholder; its else
\* branch leaves the placeholder alone on the line
RECURSIVE place_holder(_, _, _)
place_holder(cur_line, width, placeholder) ==
    IF cur_line = <<>> THEN LStrip(placeholder)
    ELSE IF /\ Strip(cur_line[Len(cur_line)]) # <<>>
            /\ SumLen(cur_line) + Len(placeholder) <= width
    THEN Join(cur_line, <<>>) \o placeholder
    ELSE place_holder(SubSeq(cur_line, 1, Len(cur_line) - 1), width, placeholder)

\* TextWrapper._wrap_chunks for max_lines = 1, joined by fill()
wrap_chunks(chunks, width, placeholder) ==
    LET t == drop_last_space(handle_long_word(TakeChunks(chunks, <<>>, width), width))
    IN  IF chunks = <<>> THEN <<>>
        ELSE IF t.line = <<>> THEN LStrip(placeholder)
        ELSE IF /\ \/ t.rest = <<>>
                   \/ (Len(t.rest) = 1 /\ Strip(t.rest[1]) = <<>>)
                /\ SumLen(t.line) <= width
        THEN Join(t.line, <<>>)
        ELSE place_holder(t.line, width, placeholder)

\* textwrap.shorten(text, width=width, placeholder=placeholder):
\* w.fill(" ".join(text.strip().split()))
shorten(text, width, placeholder) ==
    wrap_chunks(split_chunks(Join(Words(text), <<" ">>)), width, placeholder)

----------------------------------------------------------------------------
(* The parsed document and the BeautifulSoup calls of the code              *)

\* an absent attribute, a present one
NoAttr == <<>>
Attr(v) == <<v>>

\* tag.get(attr, "")
GetOr(a) == IF a = NoAttr THEN <<>> ELSE a[1]

\* an element nested in a tile
El(tag, cls, text) ==
    [tag |-> tag, cls |-> cls, href |-> NoAttr, alt |-> NoAttr,
     disabled |-> FALSE, aria |-> NoAttr, text |-> text]

\* a top-level element of the document
Top(tag, cls, in_products_ul, kids) ==
    [tag |-> tag, cls |-> cls, in_products_ul |-> in_products_ul, kids |-> kids]

\* select_one: the first of the matching elements m, as <<e>>, or << >>
First(m) == IF m = <<>> THEN <<>> ELSE <<m[1]>>

\* tag.get_text(strip=True) of an element with one text node
get_text_strip(e) == Strip(e.text)

\* card.get_text(" ", strip=True): the stripped, non-empty text nodes of the
\* tile, joined by one space
card_text(card) ==
    Join(SelectSeq([k \in 1..Len(card.kids) |-> Strip(card.kids[k].text)],
                   LAMBDA t : t # <<>>), <<" ">>)

\* the four tile conventions of the selector of product_cards, in its order
Conventions == <<"ul.products li.product", "li.product", "article.product",
                 ".wc-block-grid__product">>

MatchesConvention(e, conv) ==
    CASE conv = "ul.products li.product" ->
            e.tag = "li" /\ "product" \in e.cls /\ e.in_products_ul
      [] conv = "li.product" -> e.tag = "li" /\ "product" \in e.cls
      [] conv = "article.product" -> e.tag = "article" /\ "product" \in e.cls
      [] conv = ".wc-block-grid__product" -> "wc-block-grid__product" \in e.cls

\* the elements of soup that match convention conv, in document order
MatchSet(soup, conv) == SelectSeq(soup, LAMBDA e : MatchesConvention(e, conv))

\* first-match semantics: the match set of the first convention that matches
\* anything, the empty sequence when none does
FirstMatch(soup) ==
    LET hits == {k \in 1..Len(Conventions) : MatchSet(soup, Conventions[k]) # <<>>}
    IN  IF hits = {} THEN <<>> ELSE MatchSet(soup, Conventions[Min(hits)])

\* soup.select of the comma-separated selector group: every element that
\* matches one of its selectors, once, in document order
product_cards(soup) ==
    SelectSeq(soup, LAMBDA e :
        \E k \in 1..Len(Conventions) : MatchesConvention(e, Conventions[k]))

S_out_of_stock == <<"o","u","t"," ","o","f"," ","s","t","o","c","k">>

\* ".outofstock, .stock.out-of-stock, .badge.out-of-stock"
IsOosMarker(e) ==
    \/ "outofstock" \in e.cls
    \/ {"stock", "out-of-stock"} \subseteq e.cls
    \/ {"badge", "out-of-stock"} \subseteq e.cls

card_is_oos(card) ==
    IF First(SelectSeq(card.kids, IsOosMarker)) # <<>> THEN TRUE
    ELSE Contains(Lower(collapse_text(card_text(card))), S_out_of_stock)

\* BUY_TXT_RE.search(txt): \bbuy\s*now\b, ignoring case
BUY_TXT_RE(txt) ==
    LET t == Lower(txt)
        n == Len(t)
    IN  \E p \in 1..n : \E k \in 0..n :
          /\ p + 5 + k <= n
          /\ SubSeq(t, p, p + 2) = <<"b","u","y">>
          /\ (p = 1 \/ ~IsWord(t[p - 1]))
          /\ \A j \in 1..k : IsSpace(t[p + 2 + j])
          /\ SubSeq(t, p + 3 + k, p + 5 + k) = <<"n","o","w">>
          /\ (p + 5 + k = n \/ ~IsWord(t[p + 6 + k]))

S_true == <<"t","r","u","e">>

\* is_disabled without the test of the class list
is_disabled_no_class_test(b) ==
    \/ Lower(GetOr(b.aria)) = S_true
    \/ b.disabled

\* the three "continue" tests of card_has_buy_button
is_disabled(b) ==
    \/ Lower(GetOr(b.aria)) = S_true
    \/ b.disabled
    \/ "disabled" \in b.cls

\* "a.add_to_cart_button, button.add_to_cart_button"
IsAddToCart(e) == e.tag \in {"a", "button"} /\ "add_to_cart_button" \in e.cls

\* "a.button, button, .woocommerce a.button, .btn, .button" (the third
\* selector matches only elements that the first matches too)
IsButtonLike(e) ==
    \/ (e.tag = "a" /\ "button" \in e.cls)
    \/ e.tag = "button"
    \/ "btn" \in e.cls
    \/ "button" \in e.cls

\* the first for loop: returns at the first add-to-cart element not disabled
RECURSIVE primary_loop(_)
primary_loop(bs) ==
    IF bs = <<>> THEN FALSE
    ELSE IF is_disabled(Head(bs)) THEN primary_loop(Tail(bs))
    ELSE TRUE

\* the second for loop: returns at the first BUY NOW element not disabled
RECURSIVE fallback_loop(_)
fallback_loop(bs) ==
    IF bs = <<>> THEN FALSE
    ELSE IF BUY_TXT_RE(Lower(collapse_text(get_text_strip(Head(bs)))))
    THEN IF is_disabled(Head(bs)) THEN fallback_loop(Tail(bs)) ELSE TRUE
    ELSE fallback_loop(Tail(bs))

card_has_buy_button(card) ==
    IF primary_loop(SelectSeq(card.kids, IsAddToCart)) THEN TRUE
    ELSE fallback_loop(SelectSeq(card.kids, IsButtonLike))

\* [".woocommerce-loop-product__title", ".product-title", "h2", "h3", "h4"]
TitleSelectors == <<"woocommerce-loop-product__title", "product-title",
                    "h2", "h3", "h4">>

MatchesTitle(e, sel) ==
    IF sel \in {"h2", "h3", "h4"} THEN e.tag = sel ELSE sel \in e.cls

\* the for loop of extract_name_url over the title selectors, from selector
\* k on: the name, or << >> for None
RECURSIVE title_loop(_, _)
title_loop(card, k) ==
    IF k > Len(TitleSelectors) THEN <<>>
    ELSE LET t == First(SelectSeq(card.kids, LAMBDA e : MatchesTitle(e, TitleSelectors[k])))
         IN  IF t # <<>> /\ get_text_strip(t[1]) # <<>>
             THEN <<get_text_strip(t[1])>>
             ELSE title_loop(card, k + 1)

\* extract_name taking the alt text as it is, without strip()
extract_name_alt_unstripped(card) ==
    LET name == title_loop(card, 1)
        img  == First(SelectSeq(card.kids, LAMBDA e : e.tag = "img" /\ e.alt # NoAttr))
    IN  IF name # <<>> THEN name
        ELSE IF img # <<>> /\ img[1].alt[1] # <<>> THEN <<img[1].alt[1]>>
        ELSE name

\* the name of extract_name_url: << >> is None, <<s>> is the string s
extract_name(card) ==
    LET name == title_loop(card, 1)
        img  == First(SelectSeq(card.kids, LAMBDA e : e.tag = "img" /\ e.alt # NoAttr))
    IN  IF name # <<>> THEN name
        ELSE IF img # <<>> /\ img[1].alt[1] # <<>> THEN <<Strip(img[1].alt[1])>>
        ELSE name

\* "a.woocommerce-LoopProduct-link, a[href]"
IsLinkCandidate(e) ==
    e.tag = "a" /\ ("woocommerce-LoopProduct-link" \in e.cls \/ e.href # NoAttr)

\* the product link first, any other link with an href only when there is none
select_link_by_priority(card) ==
    IF First(SelectSeq(card.kids, LAMBDA e : e.tag = "a" /\ "woocommerce-LoopProduct-link" \in e.cls)) # <<>>
    THEN First(SelectSeq(card.kids, LAMBDA e : e.tag = "a" /\ "woocommerce-LoopProduct-link" \in e.cls))
    ELSE First(SelectSeq(card.kids, LAMBDA e : e.tag = "a" /\ e.href # NoAttr))

\* card.select_one("a.woocommerce-LoopProduct-link, a[href]")
select_link(card) == First(SelectSeq(card.kids, IsLinkCandidate))

\* what extract_name_url gives when it raises an exception of kind error
Raises(error) == [raised |-> TRUE, error |-> error, name |-> <<>>, url |-> <<>>]

\* "return name, url"
Returns(name, url) == [raised |-> FALSE, error |-> "", name |-> name, url |-> url]

\* url = normalize_url(base_url, a["href"]) if a else base_url: a["href"]
\* raises KeyError when the chosen element has no href attribute, and
\* normalize_url raises the ValueError of urlsplit
extract_name_url(card, base) ==
    LET a == select_link(card)
    IN  IF a = <<>> THEN Returns(extract_name(card), base)
        ELSE IF a[1].href = NoAttr THEN Raises("KeyError")
        ELSE IF normalize_url(base, a[1].href[1]) = ValueError THEN Raises("ValueError")
        ELSE Returns(extract_name(card), normalize_url(base, a[1].href[1]))

\* "if not name": None or the empty string
NotName(name) == name = <<>> \/ name[1] = <<>>

\* in_stock_of without the override of an out-of-stock marker
in_stock_ignoring_oos(buy, oos) == buy

\* in_stock = buy and not oos
in_stock_of(buy, oos) == buy /\ ~oos

\* dedup_key without the lower-casing
dedup_key_case_sensitive(name) == Strip(name)

\* key = name.strip().lower()
dedup_key(name) == Lower(Strip(name))

\* one report line: its text and, for an in-stock product, its link
Line(text, link) == [text |-> text, link |-> link]

S_nothing == <<"_","N","o","t","h","i","n","g"," ","r","i","g","h","t"," ","n","o","w","_">>
S_none == <<"_","N","o","n","e"," ","s","h","o","w","n","_">>

\* build_message without its title and its "Checked:" time stamp
build_message(in_stock, out_stock, checked_url) ==
    [source |-> checked_url,
     in_count |-> Len(in_stock),
     in_lines |->
        IF in_stock = <<>> THEN <<Line(S_nothing, NoAttr)>>
        ELSE [k \in 1..Len(in_stock) |->
                Line(shorten(in_stock[k].name, NameWidth, Placeholder),
                     Attr(in_stock[k].url))],
     out_count |-> Len(out_stock),
     out_lines |->
        IF out_stock = <<>> THEN <<Line(S_none, NoAttr)>>
        ELSE [k \in 1..Len(out_stock) |->
                Line(shorten(out_stock[k].name, NameWidth, Placeholder), NoAttr)]]

----------------------------------------------------------------------------
(* The state machine: main() after a successful fetch                       *)

NoMessage == <<>>

\* the state when parse_catalog is entered with document d and base URL b
Start(d, b) ==
    /\ doc = d
    /\ base_url = b
    /\ pc = "parse"
    /\ cards = <<>>
    /\ i = 1
    /\ in_list = <<>>
    /\ oos_list = <<>>
    /\ seen = {}
    /\ message = NoMessage

\* parse_catalog up to its loop: the tiles are located, the lists are empty
LocateCards ==
    /\ pc = "parse"
    /\ cards' = product_cards(doc)
    /\ i' = 1
    /\ in_list' = <<>>
    /\ oos_list' = <<>>
    /\ seen' = {}
    /\ pc' = "loop"
    /\ UNCHANGED <<doc, base_url, message>>

\* "continue": on to the next tile
Continue ==
    /\ i' = i + 1
    /\ UNCHANGED <<pc, in_list, oos_list, seen>>

\* Dedup putting the new record at the head of its list
Dedup_prepending(key, rec) ==
    IF key \in seen THEN Continue
    ELSE /\ seen' = seen \cup {key}
         /\ in_list' = IF rec.in_stock THEN <<rec>> \o in_list ELSE in_list
         /\ oos_list' = IF rec.in_stock THEN oos_list ELSE <<rec>> \o oos_list
         /\ i' = i + 1
         /\ UNCHANGED pc

\* lines 99-106: a key seen before drops the tile; a new key is recorded and
\* the record is appended to the list its in_stock selects
Dedup(key, rec) ==
    IF key \in seen THEN Continue
    ELSE /\ seen' = seen \cup {key}
         /\ in_list' = IF rec.in_stock THEN Append(in_list, rec) ELSE in_list
         /\ oos_list' = IF rec.in_stock THEN oos_list ELSE Append(oos_list, rec)
         /\ i' = i + 1
         /\ UNCHANGED pc

\* the body of the loop for tile c, r being extract_name_url(c, base_url)
Iteration(c, r) ==
    IF r.raised
    THEN /\ pc' = "raised"
         /\ UNCHANGED <<i, in_list, oos_list, seen>>
    ELSE IF NotName(r.name) THEN Continue
    ELSE Dedup(dedup_key(r.name[1]),
               [name |-> r.name[1], url |-> r.url,
                in_stock |-> in_stock_of(card_has_buy_button(c), card_is_oos(c))])

\* one iteration of "for c in cards"
LoopBody ==
    /\ pc = "loop"
    /\ i <= Len(cards)
    /\ Iteration(cards[i], extract_name_url(cards[i], base_url))
    /\ UNCHANGED <<doc, base_url, cards, message>>

\* "return in_list, oos_list"
ParseReturn ==
    /\ pc = "loop"
    /\ i > Len(cards)
    /\ pc' = "build"
    /\ UNCHANGED <<doc, base_url, cards, i, in_list, oos_list, seen, message>>

\* msg = build_message(in_stock, out_stock, SHOP_URL)
BuildMessage ==
    /\ pc = "build"
    /\ message' = build_message(in_list, oos_list, base_url)
    /\ pc' = "done"
    /\ UNCHANGED <<doc, base_url, cards, i, in_list, oos_list, seen>>

Next == LocateCards \/ LoopBody \/ ParseReturn \/ BuildMessage

----------------------------------------------------------------------------
(* Documents of catalog tiles: what names a tile and what signals its stock *)

MaxCards == 3

SHOP_URL == <<"h","t","t","p","s",":","/","/","h","e","a","l","t","h","f","u","l","l","y","f","a","r","m",".","c","o","m","/","s","h","o","p","/">>

S_Widget == <<"W","i","d","g","e","t">>
S_WIDGET_sp == <<" ","W","I","D","G","E","T",NBSP>>
S_Honey == <<"H","o","n","e","y">>
S_Eggs_sp == <<"E","g","g","s"," ">>
S_Add_to_cart == <<"A","d","d"," ","t","o"," ","c","a","r","t">>

H2(text) == El("h2", {"woocommerce-loop-product__title"}, text)
Img(alt) == [El("img", {}, <<>>) EXCEPT !.alt = Attr(alt)]
AddToCart == El("a", {"button", "add_to_cart_button"}, S_Add_to_cart)
OosBadge == El("span", {"outofstock"}, <<>>)

\* all sequences over S of length at most n
SeqsUpTo(S, n) == UNION {[1..m -> S] : m \in 0..n}

Tile(kids) == Top("li", {"product"}, TRUE, kids)

NameParts == {<<H2(S_Widget)>>, <<H2(S_WIDGET_sp)>>, <<Img(S_Eggs_sp)>>,
              <<Img(<<" ", " ">>)>>}

StockParts == {<<AddToCart>>, <<AddToCart, OosBadge>>, <<>>}

CatalogTiles == {Tile(n \o st) : n \in NameParts, st \in StockParts}

Init == \E d \in SeqsUpTo(CatalogTiles, MaxCards) : Start(d, SHOP_URL)

Spec == Init /\ [][Next]_vars

----------------------------------------------------------------------------
(* Documents whose top-level elements follow, or miss, the tile conventions *)

TopKinds ==
    {Top("li", {"product"}, TRUE, <<H2(S_Widget), AddToCart>>),
     Top("li", {"product"}, FALSE, <<H2(S_Honey), AddToCart>>),
     Top("article", {"product"}, FALSE, <<H2(S_Widget)>>),
     Top("div", {"wc-block-grid__product"}, FALSE, <<H2(S_Honey)>>),
     Top("li", {}, TRUE, <<H2(S_Widget)>>),
     Top("div", {"product"}, FALSE, <<H2(S_Honey), AddToCart>>)}

InitCards == \E d \in SeqsUpTo(TopKinds, MaxCards) : Start(d, SHOP_URL)

SpecCards == InitCards /\ [][Next]_vars

----------------------------------------------------------------------------
(* One tile with buttons and links in every state of being disabled         *)

MaxButtons == 2

S_Buy_Now == <<"B","u","y"," ","N","o","w">>
S_buy_nbsp_now == <<"b","u","y",NBSP," ","n","o","w">>
S_BUYNOW == <<"B","U","Y","N","O","W">>
S_Buy_nowadays == <<"B","u","y"," ","n","o","w","a","d","a","y","s">>
S_Select_options == <<"S","e","l","e","c","t"," ","o","p","t","i","o","n","s">>
S_p_widget == <<"/","p","/","w","i","d","g","e","t">>
S_widget_2 == <<"w","i","d","g","e","t","-","2">>

TitleLink == [El("a", {}, S_Widget) EXCEPT !.href = Attr(S_p_widget)]

ButtonKinds ==
    {El("a", {"add_to_cart_button"}, S_Add_to_cart),
     El("button", {"add_to_cart_button"}, S_Add_to_cart),
     El("span", {"add_to_cart_button"}, S_Add_to_cart),
     El("a", {"button"}, S_Buy_Now),
     El("button", {}, S_buy_nbsp_now),
     El("div", {"btn"}, S_BUYNOW),
     El("a", {"button"}, S_Buy_nowadays),
     El("a", {"button"}, S_Select_options),
     TitleLink}

Indicators == {"none", "disabled", "aria-disabled=TRUE", "aria-disabled=false",
               "class=disabled"}

WithIndicator(e, ind) ==
    CASE ind = "none" -> e
      [] ind = "disabled" -> [e EXCEPT !.disabled = TRUE]
      [] ind = "aria-disabled=TRUE" -> [e EXCEPT !.aria = Attr(<<"T","R","U","E">>)]
      [] ind = "aria-disabled=false" ->
            [e EXCEPT !.aria = Attr(<<"f","a","l","s","e">>)]
      [] ind = "class=disabled" -> [e EXCEPT !.cls = @ \cup {"disabled"}]

ButtonEls == {WithIndicator(e, ind) : e \in ButtonKinds, ind \in Indicators}

InitSignals ==
    \E bs \in SeqsUpTo(ButtonEls, MaxButtons) :
        Start(<<Tile(<<H2(S_Widget)>> \o bs)>>, SHOP_URL)

SpecSignals == InitSignals /\ [][Next]_vars

----------------------------------------------------------------------------
(* One tile with links of every kind                                        *)

MaxLinks == 2

S_open_bracket == <<"H","t","t","p","s",":","/","/","[","x">>

LinkEls ==
    {[El("a", {"woocommerce-LoopProduct-link"}, S_Widget) EXCEPT !.href = Attr(S_p_widget)],
     El("a", {"woocommerce-LoopProduct-link"}, S_Widget),
     [El("a", {}, S_Widget) EXCEPT !.href = Attr(S_widget_2)],
     [El("a", {"button"}, S_Select_options) EXCEPT !.href = Attr(<<>>)],
     [El("a", {}, S_Widget) EXCEPT !.href = Attr(S_open_bracket)],
     El("a", {}, S_Widget)}

InitLinks ==
    \E n \in {<<H2(S_Widget)>>, <<>>} : \E ls \in SeqsUpTo(LinkEls, MaxLinks) :
        Start(<<Tile(n \o ls)>>, SHOP_URL)

SpecLinks == InitLinks /\ [][Next]_vars

----------------------------------------------------------------------------
(* One tile whose link has an href of every form, under several base URLs   *)

MaxSegs == 2

S_example_shop_slash == <<"h","t","t","p","s",":","/","/","e","x","a","m","p","l","e",".","c","o","m","/","s","h","o","p","/">>
S_example_shop == <<"h","t","t","p","s",":","/","/","e","x","a","m","p","l","e",".","c","o","m","/","s","h","o","p">>
S_example == <<"h","t","t","p","s",":","/","/","e","x","a","m","p","l","e",".","c","o","m">>

Bases == {S_example_shop_slash, S_example_shop, S_example}

HrefPrefixes ==
    {<<>>, <<"/">>, <<"/","/">>,
     <<"h","t","t","p","s",":","/","/","e","x","a","m","p","l","e",".","c","o","m","/">>,
     <<"H","T","T","P","S",":","/","/","e","x","a","m","p","l","e",".","c","o","m","/">>,
     <<"h","t","t","p",":","/","/","o","t","h","e","r",".","o","r","g","/">>,
     <<"f","t","p",":","/","/","o","t","h","e","r",".","o","r","g","/">>,
     <<" ","/">>, <<"\t">>, S_open_bracket,
     <<"H","T","T","P","S",":","/","/","[",":",":","1","]","/">>}

HrefSegments == {<<"p">>, <<"w","i","d","g","e","t">>, S_widget_2, <<".",".">>, <<".">>,
                 <<".",".",";","x">>}

Hrefs == {pre \o Join(segs, <<"/">>) :
            pre \in HrefPrefixes, segs \in SeqsUpTo(HrefSegments, MaxSegs)}

InitUrl ==
    \E b \in Bases : \E h \in Hrefs :
        Start(<<Tile(<<H2(S_Widget), [El("a", {}, S_Widget) EXCEPT !.href = Attr(h)]>>)>>, b)

SpecUrl == InitUrl /\ [][Next]_vars

----------------------------------------------------------------------------
(* One tile whose name is 90 characters long                                *)

MaxWords == 3

NameLen == 90

WordLens == {1, 9, 10, 20, 29, 30, 40, 49, 50, 59, 60, 80, 88, 90}

\* what stands between two words: white space, a hyphen, dashes
Gaps == {Spaces(1), Spaces(2), Spaces(40), <<"-">>, <<"-","-">>}

LettersAndNumerals == <<"a","2","c","4","e","6","g","8","i">>

\* the characters the words are written in: word k repeats character k
Alphabets == {Lowers, LettersAndNumerals}

\* word number k, n characters long
Word(k, n, abc) == [j \in 1..n |-> abc[k]]

\* the words of lengths ls[1], ls[2], ... with gs[k] after word k
RECURSIVE MkName(_, _, _, _)
MkName(ls, gs, k, abc) ==
    IF k > Len(ls) THEN <<>>
    ELSE Word(k, ls[k], abc)
         \o (IF k < Len(ls) THEN gs[k] ELSE <<>>)
         \o MkName(ls, gs, k + 1, abc)

RECURSIVE SumOf(_)
SumOf(ns) == IF ns = <<>> THEN 0 ELSE Head(ns) + SumOf(Tail(ns))

\* the word lengths that leave room for the gaps in NameLen characters
NameShapes ==
    {ls \in SeqsUpTo(WordLens, MaxWords) :
        ls # <<>> /\ SumOf(ls) + Len(ls) - 1 <= NameLen}

\* the names of NameLen characters
LongNames ==
    UNION {{MkName(ls, gs, 1, abc) :
                gs \in {g \in [1..(Len(ls) - 1) -> Gaps] :
                            SumOf(ls) + SumLen(g) = NameLen},
                abc \in Alphabets} :
           ls \in NameShapes}

InitMsg ==
    \E n \in LongNames : \E st \in {<<AddToCart>>, <<>>} :
        Start(<<Tile(<<H2(n)>> \o st)>>, SHOP_URL)

SpecMsg == InitMsg /\ [][Next]_vars

----------------------------------------------------------------------------
(* What the claims speak of                                                 *)

\* the tiles the loop has gone through
Processed == 1..(i - 1)

\* the records of both lists
Records == in_list \o oos_list

\* the name trimmed and lower-cased
ClaimKey(nm) == Lower(Strip(nm))

\* tile k has a name
Named(k) == ~NotName(extract_name(cards[k]))

NameOf(k) == extract_name(cards[k])[1]

\* tile k is named and no named tile before it has its key
Survives(k) ==
    /\ Named(k)
    /\ \A j \in 1..(k - 1) : Named(j) => ClaimKey(NameOf(j)) # ClaimKey(NameOf(k))

\* the record the code builds from tile c
RecordOf(c) ==
    [name |-> extract_name(c)[1],
     url |-> extract_name_url(c, base_url).url,
     in_stock |-> (card_has_buy_button(c) /\ ~card_is_oos(c))]

\* what the claims need of tile c: whether it has a name, its key, and the
\* record the code builds from it
Summary(c) ==
    IF NotName(extract_name(c))
    THEN [named |-> FALSE, key |-> <<>>, rec |-> <<>>]
    ELSE [named |-> TRUE, key |-> ClaimKey(extract_name(c)[1]), rec |-> RecordOf(c)]

\* the summaries of the tiles gone through, in tile order
Summaries == [k \in Processed |-> Summary(cards[k])]

\* in the summaries t, tile k is named and the first with its key
SurvivesIn(t, k) ==
    /\ t[k].named
    /\ \A j \in 1..(k - 1) : t[j].named => t[j].key # t[k].key

\* this step appended a record, and the record it appended
Appended == Len(in_list') + Len(oos_list') > Len(in_list) + Len(oos_list)

NewRecord ==
    IF Len(in_list') > Len(in_list) THEN in_list'[Len(in_list')]
    ELSE oos_list'[Len(oos_list')]

----------------------------------------------------------------------------
\* C1: the record built from a tile has in_stock = (hasBuyAffordance AND NOT
\* isMarkedOutOfStock), the two signals being card_has_buy_button and
\* card_is_oos of that tile: a marker wins over an affordance, an affordance
\* without a marker is in stock, neither signal is out of stock.
C1_InStockRule ==
    [][Appended =>
        LET buy == card_has_buy_button(cards[i])
            oos == card_is_oos(cards[i])
        IN  /\ NewRecord.in_stock = (buy /\ ~oos)
            /\ (oos => ~NewRecord.in_stock)
            /\ (buy /\ ~oos => NewRecord.in_stock)
            /\ (~buy /\ ~oos => ~NewRecord.in_stock)]_vars

\* a tile with a marker and an affordance was recorded out of stock, after a
\* tile recorded in stock
C1_Witness ==
    /\ pc = "build"
    /\ Len(in_list) = 1
    /\ \E k \in Processed :
         /\ card_has_buy_button(cards[k]) /\ card_is_oos(cards[k])
         /\ \E r \in Range(oos_list) : r.name = NameOf(k) /\ ~r.in_stock

\* the statement of C2 for the tiles summarised in t
FirstWins(t) ==
    /\ \A a, b \in 1..Len(Records) :
         a # b => ClaimKey(Records[a].name) # ClaimKey(Records[b].name)
    /\ \A k \in 1..Len(t) : SurvivesIn(t, k) =>
         /\ t[k].rec \in Range(Records)
         /\ \A r \in Range(Records) : ClaimKey(r.name) = t[k].key => r = t[k].rec
    /\ \A r \in Range(Records) :
         \E k \in 1..Len(t) : SurvivesIn(t, k) /\ r = t[k].rec

\* C2: no two records of the two lists together share a dedup key, and the
\* record of a key is the one built from the first named tile with that key;
\* later tiles with the key are dropped, also when they would have gone to
\* the other list.
C2_FirstWins == FirstWins(Summaries)

\* an in-stock tile, then an out-of-stock tile of the same key under another
\* spelling: one in-stock record, no out-of-stock record
C2_Witness ==
    /\ pc = "done"
    /\ Len(cards) = 2
    /\ NameOf(1) # NameOf(2)
    /\ ClaimKey(NameOf(1)) = ClaimKey(NameOf(2))
    /\ RecordOf(cards[1]).in_stock /\ ~RecordOf(cards[2]).in_stock
    /\ in_list = <<RecordOf(cards[1])>>
    /\ oos_list = <<>>

\* the records of the surviving tiles of t, in tile order
SurvivorRecords(t) ==
    LET ks == SelectSeq([k \in 1..Len(t) |-> k], LAMBDA k : SurvivesIn(t, k))
    IN  [j \in 1..Len(ks) |-> t[ks[j]].rec]

\* the statement of C3 for the survivors' records sr
Partition(sr) ==
    /\ in_list = SelectSeq(sr, LAMBDA r : r.in_stock)
    /\ oos_list = SelectSeq(sr, LAMBDA r : ~r.in_stock)
    /\ Range(in_list) \cap Range(oos_list) = {}
    /\ Len(in_list) + Len(oos_list) = Len(sr)

\* C3: the two lists are an order-preserving partition of the surviving
\* tiles: each survivor's record once, in the in-stock list exactly if its
\* in_stock is true, no record in both lists, each list in tile order.
C3_Partition == Partition(SurvivorRecords(Summaries))

\* two in-stock records in tile order, the tile between them dropped as a
\* duplicate of the first
C3_Witness ==
    /\ pc = "done"
    /\ Len(cards) = 3
    /\ Summaries[2].named /\ Summaries[2].key = Summaries[1].key
    /\ in_list = <<RecordOf(cards[1]), RecordOf(cards[3])>>
    /\ oos_list = <<>>

\* no title element with text and no image with alt text that is more than
\* white space
ClaimNoName(c) ==
    /\ \A k \in 1..Len(c.kids) :
         (\E t \in 1..Len(TitleSelectors) : MatchesTitle(c.kids[k], TitleSelectors[t]))
            => Strip(c.kids[k].text) = <<>>
    /\ \A k \in 1..Len(c.kids) :
         (c.kids[k].tag = "img" /\ c.kids[k].alt # NoAttr)
            => Strip(c.kids[k].alt[1]) = <<>>

\* C4: every record has a non-empty name, and a tile without a name adds no
\* record, changes no count and does not enter the dedup set.
C4_NamedOnly ==
    /\ [](\A r \in Range(Records) : r.name # <<>>)
    /\ [][(pc = "loop" /\ i <= Len(cards) /\ ClaimNoName(cards[i])) =>
            UNCHANGED <<in_list, oos_list, seen>>]_vars

\* a tile whose only name source is an alt of white space was passed over,
\* and the named tile after it was recorded
C4_Witness ==
    /\ pc = "done"
    /\ Len(cards) = 2
    /\ ClaimNoName(cards[1])
    /\ \E k \in 1..Len(cards[1].kids) : cards[1].kids[k].alt = Attr(<<" ", " ">>)
    /\ Named(2)
    /\ Records = <<RecordOf(cards[2])>>
    /\ Cardinality(seen) = 1

----------------------------------------------------------------------------
\* the elements of the document that match one of the conventions, in
\* document order
AllMatches(d) ==
    LET ks == SelectSeq([k \in 1..Len(d) |-> k], LAMBDA k :
                \E n \in 1..Len(Conventions) : MatchesConvention(d[k], Conventions[n]))
    IN  [j \in 1..Len(ks) |-> d[ks[j]]]

\* C5, as amended: the located tiles are the elements matching any of the
\* conventions, each once, in document order (the match sets are united);
\* no match gives the empty sequence.
C5_UnionInOrder == pc # "parse" => cards = AllMatches(doc)

\* C5, as claimed: the located tiles are the match set of the first
\* convention that matches anything, never united with a later one's.
C5_FirstMatchOnly == pc # "parse" => cards = FirstMatch(doc)

\* a non-tile element between tiles of two different conventions, both
\* located
C5_Witness ==
    /\ pc = "loop"
    /\ Len(doc) = 3
    /\ Len(cards) = 2
    /\ MatchesConvention(cards[1], "article.product")
    /\ MatchesConvention(cards[2], "ul.products li.product")

----------------------------------------------------------------------------
S_buy_now == <<"b","u","y"," ","n","o","w">>
S_buynow == <<"b","u","y","n","o","w">>

\* w stands in t as whole words
WholeWords(t, w) ==
    \E p \in 1..(Len(t) - Len(w) + 1) :
        /\ SubSeq(t, p, p + Len(w) - 1) = w
        /\ (p = 1 \/ ~IsWord(t[p - 1]))
        /\ (p + Len(w) - 1 = Len(t) \/ ~IsWord(t[p + Len(w)]))

\* the collapsed text holds the phrase "buy now" as whole words, in any case
ClaimBuyNowPhrase(text) == WholeWords(Lower(collapse_text(text)), S_buy_now)

\* the collapsed text holds "buy" and "now", in any case, with white space
\* or nothing between them, as whole words
ClaimBuyNow(text) ==
    \/ WholeWords(Lower(collapse_text(text)), S_buy_now)
    \/ WholeWords(Lower(collapse_text(text)), S_buynow)

\* a button-like element: a button, or an element with the class button or
\* btn
ClaimButtonLike(e) == e.tag = "button" \/ "button" \in e.cls \/ "btn" \in e.cls

\* an add-to-cart button or link
ClaimAddToCart(e) == e.tag \in {"a", "button"} /\ "add_to_cart_button" \in e.cls

\* an add-to-cart button or link, or a button-like element whose text holds
\* "buy" and "now" with or without white space between them
ClaimAffordance(e) ==
    ClaimAddToCart(e) \/ (ClaimButtonLike(e) /\ ClaimBuyNow(e.text))

\* none of the three disabled indicators, aria-disabled read in any case
ClaimEnabled(e) ==
    /\ ~e.disabled
    /\ Lower(GetOr(e.aria)) # S_true
    /\ "disabled" \notin e.cls

\* an add-to-cart button or link, or a button-like element whose text holds
\* the phrase "buy now"
ClaimAffordancePhrase(e) ==
    ClaimAddToCart(e) \/ (ClaimButtonLike(e) /\ ClaimBuyNowPhrase(e.text))

\* none of the three disabled indicators, aria-disabled being the value true
ClaimEnabledTrue(e) ==
    /\ ~e.disabled
    /\ GetOr(e.aria) # S_true
    /\ "disabled" \notin e.cls

\* C6, as amended: card_has_buy_button is true exactly if the tile holds an
\* add-to-cart button/link, or a button-like element whose collapsed text
\* holds "buy" and "now" as whole words with white space or nothing between
\* them ("BUYNOW" counts), that carries none of the three disabled
\* indicators, aria-disabled being compared with "true" in any case; so only
\* disabled ones, or only title links, give false.
C6_BuyButtonIff ==
    \A k \in 1..Len(doc) :
        card_has_buy_button(doc[k]) <=>
            \E n \in 1..Len(doc[k].kids) :
                ClaimAffordance(doc[k].kids[n]) /\ ClaimEnabled(doc[k].kids[n])

\* C6, as claimed: card_has_buy_button is true exactly if the tile holds an
\* add-to-cart button/link, or a button-like element whose collapsed text
\* matches "buy now" as whole words, that carries none of the three disabled
\* indicators (disabled attribute, aria-disabled equal to true, "disabled"
\* in its class list).
C6_BuyNowPhraseIff ==
    \A k \in 1..Len(doc) :
        card_has_buy_button(doc[k]) <=>
            \E n \in 1..Len(doc[k].kids) :
                /\ ClaimAffordancePhrase(doc[k].kids[n])
                /\ ClaimEnabledTrue(doc[k].kids[n])

\* a tile whose one button-like element says BUYNOW, without white space
\* and without a disabled indicator, was recorded in stock, its title link
\* not counting
C6_Witness ==
    /\ pc = "done"
    /\ Len(doc[1].kids) = 3
    /\ \E n \in 1..Len(doc[1].kids) : doc[1].kids[n] = TitleLink
    /\ \E n \in 1..Len(doc[1].kids) : doc[1].kids[n] = El("div", {"btn"}, S_BUYNOW)
    /\ Len(in_list) = 1
    /\ oos_list = <<>>

----------------------------------------------------------------------------
\* C7: for every parsed document parse_catalog followed by build_message
\* completes and returns a report: nothing in a tile, such as a product link
\* without href, raises an error.
C7_NeverRaises == pc # "raised"

----------------------------------------------------------------------------
\* the anchors select_one can choose: with the product-link class, or with
\* an href
ClaimLinks(c) ==
    SelectSeq(c.kids, LAMBDA e :
        e.tag = "a" /\ ("woocommerce-LoopProduct-link" \in e.cls \/ e.href # NoAttr))

\* C8, as amended: the link used is the first element of the tile, in
\* document order, that is an anchor with the product-link class or an anchor
\* with an href, whichever comes first; its href is resolved against the
\* base URL; a tile without such an element gets the base URL; a chosen
\* anchor without href raises, and so does one whose href the resolution
\* rejects.
C8_FirstInDocumentOrder ==
    [][(pc = "loop" /\ i <= Len(cards)) =>
        IF ClaimLinks(cards[i]) = <<>>
        THEN pc' # "raised" /\ (Appended => NewRecord.url = base_url)
        ELSE IF ClaimLinks(cards[i])[1].href = NoAttr
        THEN pc' = "raised"
        ELSE IF normalize_url(base_url, ClaimLinks(cards[i])[1].href[1]) = ValueError
        THEN pc' = "raised"
        ELSE /\ pc' # "raised"
             /\ Appended =>
                    NewRecord.url = normalize_url(base_url, ClaimLinks(cards[i])[1].href[1])]_vars

\* the url the claim gives tile c: from the first element with the
\* product-link class when there is one, else from the first other link
ClaimUrl(c) ==
    LET pl == SelectSeq(c.kids, LAMBDA e :
                e.tag = "a" /\ "woocommerce-LoopProduct-link" \in e.cls)
        ol == SelectSeq(c.kids, LAMBDA e : e.tag = "a" /\ e.href # NoAttr)
    IN  IF pl # <<>> THEN normalize_url(base_url, GetOr(pl[1].href))
        ELSE IF ol # <<>> THEN normalize_url(base_url, ol[1].href[1])
        ELSE base_url

\* C8, as claimed: the product-link element has priority over other links,
\* and the url is the base URL exactly when the tile has no link element.
C8_ProductLinkFirst ==
    [][(pc = "loop" /\ i <= Len(cards) /\ Appended) =>
        /\ NewRecord.url = ClaimUrl(cards[i])
        /\ (NewRecord.url = base_url <=>
                \A n \in 1..Len(cards[i].kids) : cards[i].kids[n].tag # "a")]_vars

\* a plain link before the product link: the record has the plain link's url
C8_Witness ==
    /\ pc = "build"
    /\ Len(cards[1].kids) = 3
    /\ cards[1].kids[2].href = Attr(S_widget_2)
    /\ "woocommerce-LoopProduct-link" \in cards[1].kids[3].cls
    /\ cards[1].kids[3].href = Attr(S_p_widget)
    /\ Len(oos_list) = 1
    /\ oos_list[1].url = SHOP_URL \o S_widget_2

----------------------------------------------------------------------------
S_ex_p_widget == <<"h","t","t","p","s",":","/","/","e","x","a","m","p","l","e",".","c","o","m","/","p","/","w","i","d","g","e","t">>
S_ex_shop_widget_2 == <<"h","t","t","p","s",":","/","/","e","x","a","m","p","l","e",".","c","o","m","/","s","h","o","p","/","w","i","d","g","e","t","-","2">>

\* the href of the link of tile k
HrefOf(k) == First(SelectSeq(cards[k].kids, LAMBDA e : e.tag = "a"))[1].href[1]

\* href carries a scheme: letters, then "://"
ClaimAbsolute(href) ==
    \E k \in 2..(Len(href) - 2) :
        /\ SubSeq(href, k, k + 2) = <<":","/","/">>
        /\ \A j \in 1..(k - 1) : IsAlpha(href[j])

\* href begins with http:// or https://, in lower case
ClaimHttpPrefix(href) ==
    \/ (Len(href) >= 7 /\ SubSeq(href, 1, 7) = <<"h","t","t","p",":","/","/">>)
    \/ (Len(href) >= 8 /\ SubSeq(href, 1, 8) = <<"h","t","t","p","s",":","/","/">>)

\* the scheme and host of base: base up to the "/" that begins its path
ClaimSchemeHost(base) ==
    SubSeq(base, 1,
           Min({p \in 1..(Len(base) + 1) :
                    \/ p = Len(base) + 1
                    \/ (p > 2 /\ base[p] = "/" /\ base[p - 1] \notin {"/", ":"})}) - 1)

\* the three cases and the two examples, url being the result for href
ThreeCases(base, href, url, unchanged) ==
    /\ unchanged => url = href
    /\ (~unchanged /\ StartsWith(href, <<"/">>)) => url = ClaimSchemeHost(base) \o href
    /\ (~unchanged /\ ~StartsWith(href, <<"/">>)) => url = urljoin(base, href)
    /\ (base = S_example_shop_slash /\ href = S_p_widget) => url = S_ex_p_widget
    /\ (base = S_example_shop_slash /\ href = S_widget_2) => url = S_ex_shop_widget_2

\* the join of base and href raises, href being neither returned unchanged
\* nor root-relative
JoinRaises(base, href) ==
    /\ ~ClaimHttpPrefix(href)
    /\ ~StartsWith(href, <<"/">>)
    /\ urljoin(base, href) = ValueError

\* C9, as amended: normalize_url returns href unchanged when href begins with
\* the lower-case prefix http:// or https://; any other href that starts
\* with "/" gives the base's scheme and host followed by href; every other
\* href, an absolute one with another spelling of the scheme or one after
\* white space included, gives the standard join of base and href, which
\* raises ValueError for an href whose host has brackets that do not match;
\* /p/widget and widget-2 against https://example.com/shop/ give the two URLs
\* of the claim.
C9_HttpPrefixUnchanged ==
    /\ pc \in {"build", "done"} =>
        \A k \in 1..Len(Records) :
            /\ ThreeCases(base_url, HrefOf(k), Records[k].url, ClaimHttpPrefix(HrefOf(k)))
            /\ Records[k].url # ValueError
            /\ ~JoinRaises(base_url, HrefOf(k))
    /\ pc = "raised" => JoinRaises(base_url, HrefOf(i))

\* C9, as claimed: every absolute href is returned unchanged, a
\* root-relative one gives scheme and host followed by href, any other the
\* standard join; with the two examples.
C9_AbsoluteUnchanged ==
    pc \in {"build", "done"} =>
        \A k \in 1..Len(Records) :
            ThreeCases(base_url, HrefOf(k), Records[k].url, ClaimAbsolute(HrefOf(k)))

\* the root-relative example of the claim has been resolved
C9_Witness ==
    /\ pc = "done"
    /\ base_url = S_example_shop_slash
    /\ HrefOf(1) = S_p_widget
    /\ oos_list[1].url = S_ex_p_widget

----------------------------------------------------------------------------
\* the first m of the words ws, with single spaces between them
FirstWords(ws, m) == Join(SubSeq(ws, 1, m), <<" ">>)

\* the number of leading words that leave room for the ellipsis in width
Fitting(ws, width) ==
    Max({m \in 0..Len(ws) : Len(FirstWords(ws, m)) + 1 <= width})

\* the name with its runs of white space collapsed, its ends trimmed
ClaimCollapsed(name) == FirstWords(Words(name), Len(Words(name)))

\* the leading whole words of the name that leave room for the ellipsis
ClaimWholeWords(name) ==
    FirstWords(Words(name), Fitting(Words(name), NameWidth))

\* body is a proper prefix of text, cut at the end of a word or next to a
\* hyphen
ClaimCut(text, body) ==
    /\ Len(body) < Len(text)
    /\ body = SubSeq(text, 1, Len(body))
    /\ \/ body = <<>>
       \/ /\ text[Len(body)] # " "
          /\ \/ text[Len(body) + 1] = " "
             \/ text[Len(body)] = "-"
             \/ text[Len(body) + 1] = "-"

\* text is the rendering of the name: body is the text without its last
\* character
ClaimRendered(name, text, body) ==
    IF Len(ClaimCollapsed(name)) <= NameWidth THEN text = ClaimCollapsed(name)
    ELSE /\ Len(text) \in 1..NameWidth
         /\ text[Len(text)] = ELLIPSIS
         /\ ClaimCut(ClaimCollapsed(name), body)
         /\ Len(body) >= Len(ClaimWholeWords(name))
         /\ "-" \notin Range(name) => body = ClaimWholeWords(name)

\* the line of record k of lst is the claimed rendering of its name
RenderedAsClaimed(lst, lines) ==
    \A k \in 1..Len(lst) :
        ClaimRendered(lst[k].name, lines[k].text,
                      SubSeq(lines[k].text, 1, Len(lines[k].text) - 1))

\* C10, as amended: a name whose collapsed form is longer than 60 characters
\* is rendered as a beginning of the collapsed form followed by the
\* ellipsis, at most 60 characters in all, not exactly 60; the beginning
\* ends at the end of a word or next to a hyphen, holds at least the leading
\* whole words that leave room for the ellipsis, and exactly those when the
\* name has no hyphen; a name whose collapsed form fits is rendered
\* collapsed, without ellipsis.
C10_WholeWordsWithinWidth ==
    pc = "done" =>
        /\ RenderedAsClaimed(in_list, message.in_lines)
        /\ RenderedAsClaimed(oos_list, message.out_lines)

\* the line of record k of lst is NameWidth long, ends with the ellipsis and
\* is cut after a whole word
RenderedAtWidth(lst, lines) ==
    \A k \in 1..Len(lst) :
        Len(lst[k].name) = NameLen =>
            /\ Len(lines[k].text) = NameWidth
            /\ lines[k].text[NameWidth] = ELLIPSIS
            /\ \E m \in 0..Len(Words(lst[k].name)) :
                 SubSeq(lines[k].text, 1, NameWidth - 1) = FirstWords(Words(lst[k].name), m)

\* C10, as claimed: a 90-character name is rendered at exactly 60 characters,
\* ellipsis included, cut at a word boundary.
C10_ExactlyWidth ==
    pc = "done" =>
        /\ RenderedAtWidth(in_list, message.in_lines)
        /\ RenderedAtWidth(oos_list, message.out_lines)

\* a 90-character name rendered shorter than 60 characters, cut after the
\* hyphen inside a word, ellipsis at the end
C10_Witness ==
    /\ pc = "done"
    /\ Len(in_list) = 1
    /\ Len(in_list[1].name) = NameLen
    /\ Len(message.in_lines[1].text) \in 3..(NameWidth - 1)
    /\ message.in_lines[1].text[Len(message.in_lines[1].text)] = ELLIPSIS
    /\ message.in_lines[1].text[Len(message.in_lines[1].text) - 1] = "-"
    /\ " " \in Range(in_list[1].name)

====
